---- MODULE Spec2Model ----
(***************************************************************************)
(* A top-to-bottom run of the notebook L4-Question_Answer.ipynb            *)
(* ("LangChain: Q&A over Documents").                                      *)
(*                                                                         *)
(* The state is the kernel namespace (the names the cells bind), the list  *)
(* objects those names and the vector store refer to, and the position of  *)
(* the run.  Every statement of every code cell is one action; a statement *)
(* that calls a service or does I/O is a call step followed by a return or *)
(* a raise.  What the library calls return is not written in the notebook, *)
(* so a return draws its value from a bounded set of possible values.      *)
(*                                                                         *)
(* Strings are sequences of characters, so string building is \o.          *)
(* A name of the namespace is << >> while unbound and <<v>> once bound.    *)
(***************************************************************************)
EXTENDS Integers, Sequences, FiniteSets, TLC

VARIABLES
  pc,         \* position in Program of the statement that runs next
  status,     \* "ready", "calling", "raised" or "finished"
  ns,         \* the kernel namespace
  heap,       \* the list objects; a list's identity is its position here
  inflight,   \* call sites whose call was made and whose result is awaited
  failed,     \* history: the statements that raised, in order
  nsBefore,   \* history: the namespace when the current statement began
  started,    \* history: stages of the step-by-step cells, as they start
  stages,     \* history: stages of the step-by-step cells, as they complete
  asked,      \* history: one record per prompt sent to the language model
  llmInput,   \* history: the argument of llm.call_as_llm
  qdocsFrom,  \* history: the query that retrieved the documents in qdocs
  loaded,     \* history: the documents loader.load() returned
  displayed   \* what display(Markdown(response)) showed last

vars == << pc, status, ns, heap, inflight, failed, nsBefore, started, stages,
           asked, llmInput, qdocsFrom, loaded, displayed >>

----------------------------------------------------------------------------
(* Bounds and the values the library calls may return.                     *)

MaxLoad == 2

MaxRet == 3

Documents == { [page_content |-> << "a" >>], [page_content |-> << "b", "c" >>] }

Responses == { "| shirt | summary |", "I don't know." }

Vectors == { << 0, 1 >>, << 1, 0 >> }

SeqsUpTo(S, n) == UNION { [1..k -> S] : k \in 0..n }

----------------------------------------------------------------------------
(* The string literals of the notebook.                                    *)

FileName == "OutdoorClothingCatalog_1000.csv"

\* lines 124-125; the backslash-newline inside the literal joins the lines
Query124 ==

  << "P", "l", "e", "a", "s", "e", " ", "l", "i", "s", "t", " ",
     "a", "l", "l", " ", "y", "o", "u", "r", " ", "s", "h", "i",
     "r", "t", "s", " ", "w", "i", "t", "h", " ", "s", "u", "n",
     " ", "p", "r", "o", "t", "e", "c", "t", "i", "o", "n", " ",
     "i", "n", " ", "a", " ", "t", "a", "b", "l", "e", " ", "i",
     "n", " ", "m", "a", "r", "k", "d", "o", "w", "n", " ", "a",
     "n", "d", " ", "s", "u", "m", "m", "a", "r", "i", "z", "e",
     " ", "e", "a", "c", "h", " ", "o", "n", "e", "." >>

\* line 183
Query183 ==

  << "P", "l", "e", "a", "s", "e", " ", "s", "u", "g", "g", "e",
     "s", "t", " ", "a", " ", "s", "h", "i", "r", "t", " ", "w",
     "i", "t", "h", " ", "s", "u", "n", "b", "l", "o", "c", "k",
     "i", "n", "g" >>

\* the constant part of the f-string of lines 212-213, up to the question
QuestionMarker ==
  << " ", "Q", "u", "e", "s", "t", "i", "o", "n", ":", " " >>

\* the rest of the f-string of lines 212-213
Question212 ==

  << "P", "l", "e", "a", "s", "e", " ", "l", "i", "s", "t", " ",
     "a", "l", "l", " ", "y", "o", "u", "r", " ", "s", "h", "i",
     "r", "t", "s", " ", "w", "i", "t", "h", " ", "s", "u", "n",
     " ", "p", "r", "o", "t", "e", "c", "t", "i", "o", "n", " ",
     "i", "n", " ", "a", " ", "t", "a", "b", "l", "e", " ", "i",
     "n", " ", "m", "a", "r", "k", "d", "o", "w", "n", " ", "a",
     "n", "d", " ", "s", "u", "m", "m", "a", "r", "i", "z", "e",
     " ", "e", "a", "c", "h", " ", "o", "n", "e", "." >>

Suffix212 == QuestionMarker \o Question212

\* lines 230-231
Query230 ==

  << "P", "l", "e", "a", "s", "e", " ", "l", "i", "s", "t", " ",
     "a", "l", "l", " ", "y", "o", "u", "r", " ", "s", "h", "i",
     "r", "t", "s", " ", "w", "i", "t", "h", " ", "s", "u", "n",
     " ", "p", "r", "o", "t", "e", "c", "t", "i", "o", "n", " ",
     "i", "n", " ", "a", " ", "t", "a", "b", "l", "e", " ", "i",
     "n", " ", "m", "a", "r", "k", "d", "o", "w", "n", " ", "a",
     "n", "d", " ", "s", "u", "m", "m", "a", "r", "i", "z", "e",
     " ", "e", "a", "c", "h", " ", "o", "n", "e", "." >>

----------------------------------------------------------------------------
(* The statements of the code cells, by line, in the order of the cells.   *)

\* a variant of the cell order in which the search statement runs twice
ProgramSearchesTwice ==
  << 107, 108, 110, 120, 124, 126, 127, 143, 144, 145, 155, 158, 170,
     183, 184, 184, 187, 199, 201, 202, 212, 214, 223, 230, 232, 241, 257,
     262 >>

Program ==
  << 107, 108, 110, 120, 124, 126, 127, 143, 144, 145, 155, 158, 170,
     183, 184, 187, 199, 201, 202, 212, 214, 223, 230, 232, 241, 257, 262 >>

\* statements that call a service or read a file
CallSites == { 110, 120, 126, 144, 158, 170, 184, 212, 232, 257, 262 }

\* statements that construct a library object
Constructors == { 108, 143, 155, 199, 201, 223 }

\* statements that send a prompt to the language model
LLMSites == { 126, 212, 232, 262 }

\* the stages of the step-by-step cells
StageAt ==
  (144 :> "load") @@ (170 :> "index") @@ (184 :> "retrieve") @@
  (202 :> "concat") @@ (212 :> "llm")

Stmt == IF pc \in 1..Len(Program) THEN Program[pc] ELSE 0

Ready(line) == status = "ready" /\ Stmt = line

Awaiting(line) == status = "calling" /\ Stmt = line

\* the statement completed: the run moves to the next statement
Advance ==
  /\ pc' = pc + 1
  /\ status' = IF pc + 1 > Len(Program) THEN "finished" ELSE "ready"

\* a variant in which the exception is swallowed (try: ... except: pass)
SwallowAndContinue ==
  /\ pc' = pc + 1
  /\ status' = IF pc + 1 > Len(Program) THEN "finished" ELSE "ready"

\* no cell has a try/except: an exception ends the run at the statement
Propagate ==
  /\ pc' = pc
  /\ status' = "raised"

\* a variant in which the call is left running (not awaited)
NotAwaited(site) == inflight

\* a synchronous call has returned (or raised) when the statement continues
Returned(site) == inflight \ {site}

Bind(name, v) == [ns EXCEPT ![name] = << v >>]

Unbound ==
  [ file |-> << >>, loader |-> << >>, df |-> << >>, index |-> << >>,
    query |-> << >>, response |-> << >>, docs |-> << >>,
    embeddings |-> << >>, embed |-> << >>, db |-> << >>,
    retriever |-> << >>, llm |-> << >>, qdocs |-> << >>, qa_stuff |-> << >> ]

Init ==
  /\ pc = 1
  /\ status = "ready"
  /\ ns = Unbound
  /\ heap = << >>
  /\ inflight = {}
  /\ failed = << >>
  /\ nsBefore = Unbound
  /\ started = << >>
  /\ stages = << >>
  /\ asked = << >>
  /\ llmInput = << >>
  /\ qdocsFrom = << >>
  /\ loaded = << >>
  /\ displayed = << >>

----------------------------------------------------------------------------
(* Pure helpers.                                                           *)

\* [docs[i].page_content for i in range(len(docs))]
PageContents(ds) == [i \in 1..Len(ds) |-> ds[i].page_content]

\* a variant of join that puts a space between the elements
RECURSIVE JoinSpaced(_, _)
JoinSpaced(sep, xs) ==
  IF xs = << >> THEN << >>
  ELSE IF Len(xs) = 1 THEN xs[1]
  ELSE xs[1] \o << " " >> \o JoinSpaced(sep, Tail(xs))

\* sep.join(xs)
RECURSIVE Join(_, _)
Join(sep, xs) ==
  IF xs = << >> THEN << >>
  ELSE IF Len(xs) = 1 THEN xs[1]
  ELSE xs[1] \o sep \o Join(sep, Tail(xs))

\* f"{qdocs} Question: Please list all your shirts ... each one."
Prompt212 == ns.qdocs[1] \o Suffix212

\* the list a name refers to
ListOf(name) == heap[ns[name][1]]

\* the documents the vector store db holds
IndexContents == heap[ns.db[1].ref].items

\* a variant that overwrites the list the name is bound to (docs[:] = ...)
RebindInPlace(h, old, obj) == [heap |-> [h EXCEPT ![old] = obj], id |-> old]

\* docs = <a new list>: the name is bound to a new object, the list it was
\* bound to is left as it is
Rebind(h, old, obj) == [heap |-> Append(h, obj), id |-> Len(h) + 1]

\* what a prompt-sending call retrieves with and what it asks: the chains
\* (index.query, qa_stuff.run) get one text for both; the hand-built prompt
\* of line 212 holds qdocs and its own question text
Ask(site) ==
  IF site = 212
  THEN [site |-> site, retrievedWith |-> qdocsFrom, question |-> << Question212 >>]
  ELSE [site |-> site, retrievedWith |-> ns.query, question |-> ns.query]

----------------------------------------------------------------------------
(* Calls: made, then returned or raised.                                   *)

Call(site) ==
  /\ site \in CallSites
  /\ Ready(site)
  /\ pc' = pc
  /\ status' = "calling"
  /\ inflight' = inflight \cup {site}
  /\ nsBefore' = ns
  /\ started' = IF site \in DOMAIN StageAt THEN Append(started, StageAt[site])
                ELSE started
  /\ asked' = IF site \in LLMSites THEN Append(asked, Ask(site)) ELSE asked
  /\ llmInput' = IF site = 212 THEN << Prompt212 >> ELSE llmInput
  /\ UNCHANGED << ns, heap, failed, stages, qdocsFrom, loaded, displayed >>

\* the call raises: nothing is bound, the exception leaves the cell
Fail(site) ==
  /\ site \in CallSites
  /\ Awaiting(site)
  /\ inflight' = Returned(site)
  /\ failed' = Append(failed, site)
  /\ Propagate
  /\ UNCHANGED << ns, heap, nsBefore, started, stages, asked, llmInput,
                  qdocsFrom, loaded, displayed >>

\* a constructor raises
Raise(line) ==
  /\ line \in Constructors
  /\ Ready(line)
  /\ nsBefore' = ns
  /\ failed' = Append(failed, line)
  /\ Propagate
  /\ UNCHANGED << ns, heap, inflight, started, stages, asked, llmInput,
                  qdocsFrom, loaded, displayed >>

\* the part every return shares
Return(site) ==
  /\ Awaiting(site)
  /\ inflight' = Returned(site)
  /\ stages' = IF site \in DOMAIN StageAt THEN Append(stages, StageAt[site])
               ELSE stages
  /\ Advance
  /\ UNCHANGED << failed, nsBefore, started, asked, llmInput, qdocsFrom,
                  displayed >>

\* the part every statement without a call shares
Local(line) ==
  /\ Ready(line)
  /\ Advance
  /\ UNCHANGED << heap, inflight, failed, nsBefore, asked, llmInput, loaded,
                  displayed >>

NoStage == UNCHANGED << started, stages, qdocsFrom >>

----------------------------------------------------------------------------
(* The statements.                                                         *)

\* file = 'OutdoorClothingCatalog_1000.csv'
S107 == Local(107) /\ NoStage /\ ns' = Bind("file", FileName)

\* loader = CSVLoader(file_path=file)
NewLoader(line) ==
  /\ line \in {108, 143}
  /\ Local(line) /\ NoStage
  /\ ns' = Bind("loader", [file_path |-> ns.file[1]])

\* df = pd.read_csv(file, index_col=0); df.head()
Ret110 == Return(110) /\ ns' = Bind("df", "DataFrame") /\ UNCHANGED << heap, loaded >>

\* index = VectorstoreIndexCreator(vectorstore_cls=...).from_loaders([loader])
Ret120 ==
  /\ Return(120)
  /\ ns' = Bind("index", [vectorstore_cls |-> "DocArrayInMemorySearch",
                          embedding |-> << >>,
                          loaders |-> << ns.loader[1] >>])
  /\ UNCHANGED << heap, loaded >>

\* query = "Please list all your shirts with sun protection in a table ..."
S124 == Local(124) /\ NoStage /\ ns' = Bind("query", Query124)

\* response = index.query(query)            (126)
\* response = llm.call_as_llm(f"...")       (212)
\* response = qa_stuff.run(query)           (232)
\* response = index.query(query, llm=llm)   (262)
RetLLM(site) ==
  /\ site \in LLMSites
  /\ Return(site)
  /\ \E r \in Responses : ns' = Bind("response", r)
  /\ UNCHANGED << heap, loaded >>

\* display(Markdown(response))
Display(line) ==
  /\ line \in {127, 214, 241}
  /\ Ready(line)
  /\ Advance
  /\ displayed' = ns.response
  /\ UNCHANGED << ns, heap, inflight, failed, nsBefore, started, stages, asked,
                  llmInput, qdocsFrom, loaded >>

\* docs = loader.load()
Ret144 ==
  /\ Return(144)
  /\ \E ds \in SeqsUpTo(Documents, MaxLoad) :
       /\ heap' = Append(heap, [items |-> ds, query |-> << >>])
       /\ ns' = Bind("docs", Len(heap) + 1)
       /\ loaded' = << ds >>

\* docs[0]  (145)   print(len(docs)); print(docs[0])  (186-187)
\* an empty list has no element 0: IndexError
DocsZero(line) ==
  /\ line \in {145, 187}
  /\ Ready(line)
  /\ nsBefore' = ns
  /\ IF ListOf("docs").items # << >>
     THEN Advance /\ UNCHANGED failed
     ELSE Propagate /\ failed' = Append(failed, line)
  /\ UNCHANGED << ns, heap, inflight, started, stages, asked, llmInput,
                  qdocsFrom, loaded, displayed >>

\* embeddings = OpenAIEmbeddings()
S155 == Local(155) /\ NoStage /\ ns' = Bind("embeddings", "OpenAIEmbeddings")

\* embed = embeddings.embed_query("Hi my name is Harrison"); the prints
Ret158 ==
  /\ Return(158)
  /\ \E v \in Vectors : ns' = Bind("embed", v)
  /\ UNCHANGED << heap, loaded >>

\* db = DocArrayInMemorySearch.from_documents(docs, embeddings)
\* the store holds the documents it was given: the notebook does not say
\* whether it keeps the list it was passed or a copy of it
Ret170 ==
  /\ Return(170)
  /\ \E keepsList \in BOOLEAN :
       LET r == IF keepsList THEN [heap |-> heap, id |-> ns.docs[1]]
                ELSE [heap |-> Append(heap, ListOf("docs")), id |-> Len(heap) + 1]
       IN  /\ heap' = r.heap
           /\ ns' = Bind("db", [ref |-> r.id, embedding |-> ns.embeddings[1]])
  /\ UNCHANGED loaded

\* query = "Please suggest a shirt with sunblocking"
S183 == Local(183) /\ NoStage /\ ns' = Bind("query", Query183)

\* docs = db.similarity_search(query)
Ret184 ==
  /\ Return(184)
  /\ \E rs \in SeqsUpTo(Documents, MaxRet) :
       LET r == Rebind(heap, ns.docs[1], [items |-> rs, query |-> ns.query])
       IN  /\ heap' = r.heap
           /\ ns' = Bind("docs", r.id)
  /\ UNCHANGED loaded

\* retriever = db.as_retriever()
S199 == Local(199) /\ NoStage /\ ns' = Bind("retriever", [vectorstore |-> ns.db[1]])

\* llm = ChatOpenAI(temperature = 0.0)
S201 == Local(201) /\ NoStage /\ ns' = Bind("llm", [temperature |-> 0])

\* qdocs = "".join([docs[i].page_content for i in range(len(docs))]); print
S202 ==
  /\ Local(202)
  /\ ns' = Bind("qdocs", Join(<< >>, PageContents(ListOf("docs").items)))
  /\ qdocsFrom' = ListOf("docs").query
  /\ started' = Append(started, StageAt[202])
  /\ stages' = Append(stages, StageAt[202])

\* qa_stuff = RetrievalQA.from_chain_type(llm=llm, chain_type="stuff",
\*                                        retriever=retriever, verbose=True)
S223 ==
  /\ Local(223) /\ NoStage
  /\ ns' = Bind("qa_stuff", [llm |-> ns.llm[1], chain_type |-> "stuff",
                             retriever |-> ns.retriever[1], verbose |-> TRUE])

\* query = "Please list all your shirts with sun protection in a table ..."
S230 == Local(230) /\ NoStage /\ ns' = Bind("query", Query230)

\* index = VectorstoreIndexCreator(vectorstore_cls=..., embedding=embeddings,
\*                                 ).from_loaders([loader])
Ret257 ==
  /\ Return(257)
  /\ ns' = Bind("index", [vectorstore_cls |-> "DocArrayInMemorySearch",
                          embedding |-> ns.embeddings,
                          loaders |-> << ns.loader[1] >>])
  /\ UNCHANGED << heap, loaded >>

Next ==
  \/ \E site \in CallSites : Call(site)
  \/ \E site \in CallSites : Fail(site)
  \/ \E line \in Constructors : Raise(line)
  \/ S107
  \/ \E line \in {108, 143} : NewLoader(line)
  \/ Ret110
  \/ Ret120
  \/ S124
  \/ \E site \in LLMSites : RetLLM(site)
  \/ \E line \in {127, 214, 241} : Display(line)
  \/ Ret144
  \/ \E line \in {145, 187} : DocsZero(line)
  \/ S155
  \/ Ret158
  \/ Ret170
  \/ S183
  \/ Ret184
  \/ S199
  \/ S201
  \/ S202
  \/ S223
  \/ S230
  \/ Ret257

Spec == Init /\ [][Next]_vars

----------------------------------------------------------------------------
(* Properties.                                                             *)

IsPrefix(s, t) == Len(s) <= Len(t) /\ s = SubSeq(t, 1, Len(s))

StageOrder == << "load", "index", "retrieve", "concat", "llm" >>

\* the length of the page contents of the first i - 1 documents of ds
RECURSIVE OffsetOf(_, _)
OffsetOf(ds, i) ==
  IF i <= 1 THEN 0 ELSE OffsetOf(ds, i - 1) + Len(ds[i - 1].page_content)

\* C1: in a top-to-bottom run the stages of the step-by-step cells (load,
\* index, retrieve, concat, llm) start and complete in that order, each at
\* most once, a stage starts only when every earlier stage has completed,
\* and a run that reaches the end has done each of them exactly once.
C1_StagesInOrder ==
  /\ IsPrefix(started, StageOrder)
  /\ IsPrefix(stages, started)
  /\ Len(started) - Len(stages) <= 1
  /\ status = "finished" => stages = StageOrder

C1_Witness == status = "finished" /\ stages = StageOrder /\ started = StageOrder

\* C6: when a statement raises, the run stops at that statement: nothing
\* was bound by it, no call is left in flight, it is the only failure of
\* the run (no retry), and no stage at or after it has completed.
C6_FailurePropagates ==
  failed # << >> =>
    /\ status = "raised"
    /\ Len(failed) = 1
    /\ Stmt = failed[1]
    /\ ns = nsBefore
    /\ inflight = {}
    /\ \A l \in DOMAIN StageAt :
         l >= failed[1] => \A i \in 1..Len(stages) : stages[i] # StageAt[l]

\* the similarity search raised: docs is still the loaded list, qdocs and
\* the later names are unbound
C6_Witness ==
  /\ failed = << 184 >>
  /\ status = "raised"
  /\ ns.docs # << >>
  /\ ListOf("docs").query = << >>
  /\ ns.qdocs = << >>

\* C7: at most one call is in flight at any time, it is the call of the
\* statement the run is at, and no call is in flight while a statement
\* starts or after the run has ended.
C7_OneCallInFlight ==
  /\ Cardinality(inflight) <= 1
  /\ status = "calling" => inflight = {Stmt}
  /\ status # "calling" => inflight = {}

C7_Witness == inflight = {262} /\ status = "calling"

\* C8: the text given to llm.call_as_llm is the page contents of the
\* documents the similarity search returned, each once, in retrieval order,
\* with nothing between them, followed by " Question: " and the question.
C8_PromptIsDocsThenQuestion ==
  llmInput # << >> =>
    LET p == llmInput[1]
        ds == ListOf("docs").items
        total == OffsetOf(ds, Len(ds) + 1)
    IN  /\ ListOf("docs").query # << >>
        /\ Len(p) = total + Len(QuestionMarker) + Len(Question212)
        /\ \A i \in 1..Len(ds) :
             SubSeq(p, OffsetOf(ds, i) + 1, OffsetOf(ds, i + 1)) = ds[i].page_content
        /\ SubSeq(p, 1, total) = ns.qdocs[1]
        /\ SubSeq(p, total + 1, total + Len(QuestionMarker)) = QuestionMarker
        /\ SubSeq(p, total + Len(QuestionMarker) + 1, Len(p)) = Question212

\* the prompt was sent with two different documents retrieved
C8_Witness ==
  /\ llmInput # << >>
  /\ Len(ListOf("docs").items) >= 2
  /\ ListOf("docs").items[1] # ListOf("docs").items[2]

\* C9: every prompt sent to the language model asks the question its
\* documents were retrieved with.
C9_RetrievedWithTheQuestion ==
  \A i \in 1..Len(asked) : asked[i].retrievedWith = asked[i].question

\* C10: once db is built it holds the documents loader.load() returned,
\* whatever is searched, retrieved or rebound afterwards.
C10_IndexKeepsLoadedDocs ==
  ns.db # << >> => IndexContents = loaded[1]

\* the run is over, docs was rebound to search results that differ from
\* the loaded documents, qa_stuff.run was called, and db holds the very
\* list loader.load() returned
C10_Witness ==
  /\ status = "finished"
  /\ ns.db # << >>
  /\ ListOf("docs").query # << >>
  /\ ListOf("docs").items # loaded[1]
  /\ ns.db[1].ref # ns.docs[1]
  /\ heap[ns.db[1].ref].query = << >>
  /\ Len(heap) = 2
  /\ \E i \in 1..Len(asked) : asked[i].site = 232

====
